---- MODULE Spec2Model ----
(***************************************************************************)
(* pacman-mirrorup: sync filter, exclusion engine and weighted scorer.     *)
(*                                                                         *)
(* Text (country, country code, host name, rule value) is a sequence of    *)
(* one-character strings, so that to_lowercase is computed and not assumed.*)
(* Option<T> is the empty sequence (None) or a one-element sequence        *)
(* (Some(x)).  An f64 is a record [nan, val]: val is an integer, NaN is    *)
(* the one value with nan = TRUE; rounding is not modelled.                *)
(***************************************************************************)
EXTENDS Integers, Sequences, FiniteSets, TLC

VARIABLES
    urls,              \* MirrorsStatus.urls, the catalog
    max_check,         \* best_synced_mirrors argument, Option<u32>
    excluded_mirrors,  \* best_synced_mirrors argument, Option<ExcludedMirrors>
    mirrors,           \* the Mirrors value being built / returned
    result,            \* outcome of the call in progress
    pc,                \* position of the control thread
    self_mirrors,      \* evaluate receiver, the Mirrors it clones
    select_n,          \* evaluate argument n
    max_score,         \* the local max_score of score()
    probed,            \* slots whose probe worker has returned
    requested,         \* slots whose rate is reset and whose request is outstanding
    responses,         \* per slot, what the mirror answered to the probe
    stage_ret,         \* what Mirrors::measure_duration returned
    rules,             \* an ExcludedMirrors instance (self.0)
    is_exclude_ret,    \* last is_exclude call: the mirror and what came back
    arguments,         \* run: the file arguments and what the file system holds
    attempts,          \* from_online_json: the local attempts
    calls,             \* from_online_json: requests issued to the status server
    slept,             \* from_online_json: the last backoff slept, in seconds
    error,             \* run: the error it returned, "none" while there is none
    outputs,           \* run: what has been written (mirrorlist, stdout, stats)
    exit_code,         \* main: the exit code of the process
    dropped,           \* read_exclude_from: the Err lines filter_map has dropped
    line,              \* ExcludeKind::try_from: the text it was called with
    parsed,            \* ExcludeKind::try_from: what it returned
    add_from_ret       \* last add_from call: the file and what came back

filterVars == << urls, max_check, excluded_mirrors >>
evalVars == << self_mirrors, select_n, max_score, probed, requested, responses, stage_ret >>
excludeVars == << rules, is_exclude_ret >>
runVars == << arguments, attempts, calls, slept, error, outputs, exit_code, dropped >>

parseVars == << line, parsed, add_from_ret >>

vars == << filterVars, evalVars, excludeVars, runVars, parseVars, mirrors, result, pc >>

----
\* Bounds of the model.
MaxUrls == 3
MaxCheck == 2
MaxRules == 2
MaxMirrors == 3
MaxSelect == 2
MaxExcludeRules == 3
MaxRunUrls == 2
MaxLineTokens == 4
MaxReadErrors == 2

----
\* Option<T>
None == << >>
Some(x) == << x >>
Unwrap(o) == o[1]

\* f64
F(v) == [nan |-> FALSE, val |-> v]
NaN == [nan |-> TRUE, val |-> 0]

FSub(a, b) == IF a.nan \/ b.nan THEN NaN ELSE F(a.val - b.val)

FMul(a, b) == IF a.nan \/ b.nan THEN NaN ELSE F(a.val * b.val)

\* f64::max: a NaN operand is ignored in favour of the other operand.
FMax(a, b) ==
    IF a.nan THEN b
    ELSE IF b.nan THEN a
    ELSE IF a.val >= b.val THEN a ELSE b

\* f64::partial_cmp: None when either operand is NaN.
PartialCmp(a, b) ==
    IF a.nan \/ b.nan THEN "None"
    ELSE IF a.val < b.val THEN "Less"
    ELSE IF a.val > b.val THEN "Greater"
    ELSE "Equal"

Abs(x) == IF x < 0 THEN -x ELSE x

\* completion_pct is counted in thousandths: 1.0_f64 is ONE.  EPSILON is the
\* distance between ONE and the next value of the grid, as f64::EPSILON is.
ONE == 1000
EPSILON == 1
DelayLimit == 3600

\* from_online_json: the ceiling of the retry loop, and the base of the
\* backoff in seconds.
max_retries == 5
base_delay == 1

\* run before it is called.
NoArguments == [output_file |-> "none", stats_file |-> "none", exclude_from |-> "none"]

NotRun ==
    /\ line = << >>
    /\ parsed = << >>
    /\ add_from_ret = << >>
    /\ arguments = NoArguments
    /\ attempts = 0
    /\ calls = 0
    /\ slept = 0
    /\ error = "none"
    /\ outputs = { }
    /\ exit_code = "none"
    /\ dropped = 0

----
\* str::to_lowercase
UpperChars == << "A", "B", "C", "D", "S", "X", "Y" >>
LowerChars == << "a", "b", "c", "d", "s", "x", "y" >>

LowerChar(c) ==
    IF \E i \in DOMAIN UpperChars : UpperChars[i] = c
    THEN LowerChars[CHOOSE i \in DOMAIN UpperChars : UpperChars[i] = c]
    ELSE c

to_lowercase(s) == [i \in DOMAIN s |-> LowerChar(s[i])]

----
\* Mirror.  url is the parsed form of the url string: the kind of its host
\* (a DNS name or an IP address) and the host text.
Mirror(hostKind, host, protocol, completion, delay, score, active, country, cc) ==
    [ url |-> [host_kind |-> hostKind, host |-> host],
      protocol |-> protocol,
      completion_pct |-> completion,
      delay |-> delay,
      score |-> score,
      active |-> active,
      country |-> country,
      country_code |-> cc,
      transfer_rate |-> None,
      weighted_score |-> None ]

\* Url::parse(&url): Err for a text that is not an absolute url ("", "a/",
\* "http://"), host_kind "none".
UrlParses(url) == url.host_kind # "none"

\* Url::parse(..).unwrap().domain(): Some(name) for a DNS host, None for an
\* IP address host.
UrlDomain(url) == IF url.host_kind = "domain" THEN Some(url.host) ELSE None

----
\* ExcludeKind
Domain(value, negate) == [kind |-> "Domain", value |-> value, negate |-> negate]
Country(value, negate) == [kind |-> "Country", value |-> value, negate |-> negate]
CountryCode(value, negate) == [kind |-> "CountryCode", value |-> value, negate |-> negate]
Ignore == [kind |-> "Ignore", value |-> << >>, negate |-> FALSE]

\* is_exclude unwraps Url::parse and Url::domain(): it panics on a mirror
\* whose url does not parse or whose host is an IP address, before any rule
\* is looked at.
is_exclude_panics(mirror) == ~UrlParses(mirror.url) \/ UrlDomain(mirror.url) = None

\* One arm of the match in the loop of is_exclude.
RuleMatches(exclude_kind, domain_name, country, country_code) ==
    \/ exclude_kind.kind = "Domain" /\ exclude_kind.value = domain_name
    \/ exclude_kind.kind = "Country" /\ exclude_kind.value = country
    \/ exclude_kind.kind = "CountryCode" /\ exclude_kind.value = country_code

\* The loop of is_exclude, for exclude_kind in self.iter().rev(): i is the
\* index of the rule looked at next, 0 when the rules are exhausted.
RECURSIVE ScanRules(_, _, _, _, _)
ScanRulesForward(list, i, domain_name, country, country_code) ==
    LET j == Len(list) + 1 - i IN
    IF i = 0 THEN FALSE
    ELSE IF RuleMatches(list[j], domain_name, country, country_code)
         THEN ~list[j].negate
         ELSE ScanRules(list, i - 1, domain_name, country, country_code)

ScanRules(list, i, domain_name, country, country_code) ==
    IF i = 0 THEN FALSE
    ELSE IF RuleMatches(list[i], domain_name, country, country_code)
         THEN ~list[i].negate
         ELSE ScanRules(list, i - 1, domain_name, country, country_code)

\* ExcludedMirrors::is_exclude, for a mirror it does not panic on.
is_exclude(list, mirror) ==
    ScanRules(list, Len(list),
              to_lowercase(Unwrap(UrlDomain(mirror.url))),
              to_lowercase(mirror.country),
              to_lowercase(mirror.country_code))

\* ExcludedMirrors::add: an Ignore entry is not pushed.
PushedAlways(list, exclude) == Append(list, exclude)

Pushed(list, exclude) == IF exclude # Ignore THEN Append(list, exclude) ELSE list

ExcludeRulePool ==
    { Domain(<< "a" >>, FALSE), Domain(<< "a" >>, TRUE),
      Domain(<< "b" >>, FALSE), Domain(<< "b" >>, TRUE),
      Country(<< "x", "x" >>, FALSE), Country(<< "x", "x" >>, TRUE),
      CountryCode(<< "y" >>, FALSE), CountryCode(<< "y" >>, TRUE),
      Ignore }

add(exclude) ==
    /\ pc = "exclude"
    /\ Len(rules) < MaxExcludeRules
    /\ rules' = Pushed(rules, exclude)
    /\ UNCHANGED << parseVars, runVars, filterVars, evalVars, is_exclude_ret, mirrors, result, pc >>

\* A call self.is_exclude(mirror): what it was called with and what came back.
is_exclude_call(mirror) ==
    /\ pc = "exclude"
    /\ is_exclude_ret' =
           Some([ list |-> rules,
                  mirror |-> mirror,
                  value |-> IF is_exclude_panics(mirror) THEN "panic"
                            ELSE IF is_exclude(rules, mirror) THEN "true"
                            ELSE "false" ])
    /\ UNCHANGED << parseVars, runVars, filterVars, evalVars, rules, mirrors, result, pc >>

----
\* ExcludeKind::try_from

Least(S) == CHOOSE x \in S : \A y \in S : x <= y
Greatest(S) == CHOOSE x \in S : \A y \in S : y <= x

\* char::is_whitespace, for the characters of the model.
IsWhitespace(c) == c \in { " ", "\t", "\n", "\r" }

\* str::trim
Trim(s) ==
    LET kept == { i \in DOMAIN s : ~IsWhitespace(s[i]) }
    IN IF kept = { } THEN << >> ELSE SubSeq(s, Least(kept), Greatest(kept))

\* .chars().take_while(|c| *c != '#' && *c != ';')
RemoveComment(s) ==
    LET marks == { i \in DOMAIN s : s[i] \in { "#", ";" } }
    IN IF marks = { } THEN s ELSE SubSeq(s, 1, Least(marks) - 1)

KwDomain == << "d", "o", "m", "a", "i", "n" >>
KwCountry == << "c", "o", "u", "n", "t", "r", "y" >>
KwCountryCode == KwCountry \o << "_", "c", "o", "d", "e" >>

\* The characters of s from p on that are not whitespace.
InkFrom(s, p) == { j \in p..Len(s) : ~IsWhitespace(s[j]) }

\* kw\s*= matches s at p.  The patterns are not anchored.
KeywordAt(s, kw, p) ==
    /\ p + Len(kw) - 1 <= Len(s)
    /\ SubSeq(s, p, p + Len(kw) - 1) = kw
    /\ InkFrom(s, p + Len(kw)) # { }
    /\ s[Least(InkFrom(s, p + Len(kw)))] = "="

\* EXCLUDE_SET_RE.matches(&line).matched(..)
matched(s, kw) == \E p \in DOMAIN s : KeywordAt(s, kw, p)

\* EXCLUDE_CAPTURE_RE[..].captures(&line): the leftmost match.  (?P<negate>!*)
\* takes the '!' that stand right before the keyword, \s*(\S*) the first run
\* of characters that are not whitespace after the '=', which may be empty.
captures(s, kw) ==
    LET p == Least({ q \in DOMAIN s : KeywordAt(s, kw, q) })
        eq == Least(InkFrom(s, p + Len(kw)))
        ink == InkFrom(s, eq + 1)
        from == Least(ink)
        gaps == { j \in from..Len(s) : IsWhitespace(s[j]) }
    IN [ negate |-> p > 1 /\ s[p - 1] = "!",
         value |-> IF ink = { } THEN << >>
                   ELSE SubSeq(s, from, IF gaps = { } THEN Len(s) ELSE Least(gaps) - 1) ]

try_from(text) ==
    IF text = << >> THEN Ignore
    ELSE LET l == to_lowercase(Trim(RemoveComment(Trim(text)))) IN
         IF l = << >> THEN Ignore
         ELSE IF matched(l, KwDomain)
              THEN Domain(captures(l, KwDomain).value, captures(l, KwDomain).negate)
         ELSE IF matched(l, KwCountry)
              THEN Country(captures(l, KwCountry).value, captures(l, KwCountry).negate)
         ELSE IF matched(l, KwCountryCode)
              THEN CountryCode(captures(l, KwCountryCode).value,
                               captures(l, KwCountryCode).negate)
         ELSE IF l[1] = "!" THEN Domain(Tail(l), TRUE)
         ELSE Domain(l, FALSE)

\* A call ExcludeKind::try_from(line); it returns Ok in every case.
try_from_call ==
    /\ pc = "parse_line"
    /\ parsed' = Some(try_from(line))
    /\ pc' = "parsed"
    /\ UNCHANGED << filterVars, evalVars, excludeVars, runVars, line, add_from_ret,
                    mirrors, result >>

----
\* ExcludedMirrors::add_from

\* str::lines: the pieces between "\n", without the "\r" that ends a piece;
\* an empty piece after the last "\n" is not a line.
RECURSIVE Lines(_)
Lines(text) ==
    IF text = << >> THEN << >>
    ELSE LET ends == { i \in DOMAIN text : text[i] = "\n" } IN
         IF ends = { } THEN << text >>
         ELSE LET piece == SubSeq(text, 1, Least(ends) - 1)
                  l == IF piece # << >> /\ piece[Len(piece)] = "\r"
                       THEN SubSeq(piece, 1, Len(piece) - 1) ELSE piece
              IN << l >> \o Lines(SubSeq(text, Least(ends) + 1, Len(text)))

\* for line in excluded_list.lines() { self.add(ExcludeKind::try_from(line)?) }
RECURSIVE AddAll(_, _)
AddAll(list, lines) ==
    IF lines = << >> THEN list
    ELSE AddAll(Pushed(list, try_from(Head(lines))), Tail(lines))

\* The rule files: file.readable is whether read_to_string gives its content.
FileA ==
    [ readable |-> TRUE,
      content |-> << "A", "\n", "\n", "#", " ", "\n", "!", "A", "\n" >> ]

FileB ==
    [ readable |-> TRUE,
      content |-> KwCountry \o << " ", "=", " ", "X", "x", " ", ";", " ", "c", "\n" >> ]

FileD ==
    [ readable |-> TRUE,
      content |-> << "!" >> \o KwCountryCode \o << "=", "Y", "\r", "\n", "B" >> ]

FileUnreadable == [ readable |-> FALSE, content |-> << >> ]

FilePool == { FileA, FileB, FileD, FileUnreadable }

\* A call self.add_from(file): the file and what came back.
add_from(file) ==
    /\ pc = "exclude"
    /\ Len(rules) + Len(AddAll(<< >>, Lines(file.content))) <= MaxExcludeRules
    /\ rules' = IF file.readable THEN AddAll(rules, Lines(file.content)) ELSE rules
    /\ add_from_ret' = Some([ file |-> file,
                             value |-> IF file.readable THEN "Ok" ELSE "Err" ])
    /\ UNCHANGED << filterVars, evalVars, runVars, line, parsed, is_exclude_ret,
                    mirrors, result, pc >>

----
\* best_synced_mirrors

\* The primary filter: the chain of .filter() calls.
EligibleAnyDelay(m) ==
    /\ m.active
    /\ (m.protocol = "http" \/ m.protocol = "https")
    /\ m.completion_pct # None
    /\ Abs(Unwrap(m.completion_pct) - ONE) < EPSILON

Eligible(m) ==
    /\ m.active
    /\ (m.protocol = "http" \/ m.protocol = "https")
    /\ m.completion_pct # None
    /\ Abs(Unwrap(m.completion_pct) - ONE) < EPSILON
    /\ IF m.delay # None THEN Unwrap(m.delay) < DelayLimit ELSE FALSE

PrimaryFilter(list) == SelectSeq(list, Eligible)

\* mirrors.retain(|m| !exclude.is_exclude(m))
RetainAll(list, exclude) == list

Retain(list, exclude) ==
    LET Keep(m) == ~is_exclude(exclude, m) IN SelectSeq(list, Keep)

\* Ord for Option<i64>: None is less than every Some.
DelayLess(a, b) ==
    IF a = None THEN b # None
    ELSE IF b = None THEN FALSE
    ELSE Unwrap(a) < Unwrap(b)

\* slice::sort_by is a stable sort: an element goes behind every element
\* that does not compare greater than it.
InsertByDelayUnstable(sorted, m) ==
    LET k == Cardinality({i \in DOMAIN sorted : DelayLess(sorted[i].delay, m.delay)})
    IN SubSeq(sorted, 1, k) \o << m >> \o SubSeq(sorted, k + 1, Len(sorted))

InsertByDelay(sorted, m) ==
    LET k == Cardinality({i \in DOMAIN sorted : ~DelayLess(m.delay, sorted[i].delay)})
    IN SubSeq(sorted, 1, k) \o << m >> \o SubSeq(sorted, k + 1, Len(sorted))

RECURSIVE SortByDelay(_)
SortByDelay(list) ==
    IF list = << >> THEN << >>
    ELSE InsertByDelay(SortByDelay(SubSeq(list, 1, Len(list) - 1)), list[Len(list)])

\* Vec::truncate
Truncate(list, len) == IF len >= Len(list) THEN list ELSE SubSeq(list, 1, len)

\* The whole of best_synced_mirrors: a panic in is_exclude unwinds the call,
\* an empty list is the error "No best synced mirrors".
BestSyncedPanics(catalog, exclude) ==
    /\ exclude # None
    /\ \E i \in DOMAIN PrimaryFilter(catalog) : is_exclude_panics(PrimaryFilter(catalog)[i])

BestSyncedListTruncateFirst(catalog, check, exclude) ==
    LET primary == PrimaryFilter(catalog)
        cut == IF check # None THEN Truncate(primary, Unwrap(check)) ELSE primary
        retained == IF exclude # None THEN Retain(cut, Unwrap(exclude)) ELSE cut
    IN SortByDelay(retained)

BestSyncedList(catalog, check, exclude) ==
    LET primary == PrimaryFilter(catalog)
        retained == IF exclude # None THEN Retain(primary, Unwrap(exclude)) ELSE primary
        sorted == SortByDelay(retained)
    IN IF check # None THEN Truncate(sorted, Unwrap(check)) ELSE sorted

best_synced_mirrors ==
    /\ pc = "filter"
    /\ IF BestSyncedPanics(urls, excluded_mirrors)
       THEN /\ result' = "panic"
            /\ mirrors' = << >>
       ELSE LET list == BestSyncedList(urls, max_check, excluded_mirrors) IN
            IF list = << >>
            THEN /\ result' = "NoCandidates"
                 /\ mirrors' = << >>
            ELSE /\ result' = "ok"
                 /\ mirrors' = list
    /\ pc' = "filtered"
    /\ UNCHANGED << parseVars, runVars, filterVars, evalVars, excludeVars >>

----
\* The catalogs the sync filter is run on: three mirrors that pass the
\* primary filter (two of them with the same delay), one that passes it and
\* whose host is an IP address, and one mirror for each way of failing it.
SyncedA ==
    Mirror("domain", << "a" >>, "https", Some(ONE), Some(0), Some(F(1)), TRUE,
           << "X", "x" >>, << "X" >>)
SyncedB ==
    Mirror("domain", << "B" >>, "http", Some(ONE), Some(0), Some(F(3)), TRUE,
           << "Y", "y" >>, << "Y" >>)
SyncedC ==
    Mirror("domain", << "c" >>, "https", Some(ONE), Some(DelayLimit - 1), None, TRUE,
           << "X", "x" >>, << "X" >>)
SyncedIp ==
    Mirror("ip", << "1" >>, "http", Some(ONE), Some(5), Some(F(2)), TRUE,
           << "Y", "y" >>, << "Y" >>)
Inactive ==
    Mirror("domain", << "a" >>, "https", Some(ONE), Some(0), Some(F(1)), FALSE,
           << "X", "x" >>, << "X" >>)
Rsync ==
    Mirror("domain", << "a" >>, "rsync", Some(ONE), Some(0), Some(F(1)), TRUE,
           << "X", "x" >>, << "X" >>)
NoCompletion ==
    Mirror("domain", << "a" >>, "https", None, Some(0), Some(F(1)), TRUE,
           << "X", "x" >>, << "X" >>)
Incomplete ==
    Mirror("domain", << "a" >>, "https", Some(ONE - EPSILON), Some(0), Some(F(1)), TRUE,
           << "X", "x" >>, << "X" >>)
NoDelay ==
    Mirror("domain", << "a" >>, "https", Some(ONE), None, Some(F(1)), TRUE,
           << "X", "x" >>, << "X" >>)
Late ==
    Mirror("domain", << "a" >>, "https", Some(ONE), Some(DelayLimit), Some(F(1)), TRUE,
           << "X", "x" >>, << "X" >>)

CatalogPool ==
    { SyncedA, SyncedB, SyncedC, SyncedIp,
      Inactive, Rsync, NoCompletion, Incomplete, NoDelay, Late }

FilterRulePool ==
    { Domain(<< "a" >>, FALSE), Domain(<< "a" >>, TRUE), Country(<< "x", "x" >>, FALSE) }

SeqsUpTo(S, n) == UNION { [1..k -> S] : k \in 0..n }

\* A call of best_synced_mirrors on a deserialized MirrorsStatus.
InitFilter ==
    /\ urls \in SeqsUpTo(CatalogPool, MaxUrls)
    /\ max_check \in { None } \cup { Some(k) : k \in 0..MaxCheck }
    /\ excluded_mirrors \in { None } \cup { Some(l) : l \in SeqsUpTo(FilterRulePool, MaxRules) }
    /\ mirrors = << >>
    /\ result = "none"
    /\ pc = "filter"
    /\ self_mirrors = << >>
    /\ select_n = 0
    /\ max_score = None
    /\ probed = { }
    /\ requested = { }
    /\ responses = << >>
    /\ stage_ret = "none"
    /\ rules = << >>
    /\ is_exclude_ret = None
    /\ NotRun

NextFilter == best_synced_mirrors

SpecFilter == InitFilter /\ [][NextFilter]_vars

----
\* The exclusion engine on its own: a rule set is built with add, and
\* is_exclude is asked about mirrors of the catalog pool.
InitExclude ==
    /\ urls = << >>
    /\ max_check = None
    /\ excluded_mirrors = None
    /\ mirrors = << >>
    /\ result = "none"
    /\ pc = "exclude"
    /\ self_mirrors = << >>
    /\ select_n = 0
    /\ max_score = None
    /\ probed = { }
    /\ requested = { }
    /\ responses = << >>
    /\ stage_ret = "none"
    /\ rules = << >>
    /\ is_exclude_ret = None
    /\ NotRun

NextExclude ==
    \/ \E exclude \in ExcludeRulePool : add(exclude)
    \/ \E file \in FilePool : add_from(file)
    \/ \E mirror \in { SyncedA, SyncedB, SyncedC, SyncedIp } : is_exclude_call(mirror)

SpecExclude == InitExclude /\ [][NextExclude]_vars

\* The lines try_from is called with: up to MaxLineTokens pieces, each a
\* keyword, a value, a mark, a blank, a '!' with a blank behind it or an '='
\* with blanks around it.
LineTokens ==
    { << "!" >>, << " " >>, << "=" >>, << "#" >>, << ";" >>, << "A" >>,
      << "!", " " >>, << " ", "=", " " >>,
      << "D", "o", "m", "a", "i", "n" >>, KwCountry, KwCountryCode }

RECURSIVE Flatten(_)
Flatten(pieces) ==
    IF pieces = << >> THEN << >> ELSE Head(pieces) \o Flatten(Tail(pieces))

InitParse ==
    /\ line \in { Flatten(pieces) : pieces \in SeqsUpTo(LineTokens, MaxLineTokens) }
    /\ parsed = None
    /\ add_from_ret = None
    /\ urls = << >>
    /\ max_check = None
    /\ excluded_mirrors = None
    /\ mirrors = << >>
    /\ result = "none"
    /\ pc = "parse_line"
    /\ self_mirrors = << >>
    /\ select_n = 0
    /\ max_score = None
    /\ probed = { }
    /\ requested = { }
    /\ responses = << >>
    /\ stage_ret = "none"
    /\ rules = << >>
    /\ is_exclude_ret = None
    /\ arguments = NoArguments
    /\ attempts = 0
    /\ calls = 0
    /\ slept = 0
    /\ error = "none"
    /\ outputs = { }
    /\ exit_code = "none"
    /\ dropped = 0

NextParse == try_from_call

SpecParse == InitParse /\ [][NextParse]_vars

----
\* evaluate: probe, score, sort, select.

\* Mirror::measure_duration.  The response of the mirror is the input: a body
\* of known length (the rate is its length over the elapsed time), a body of
\* unknown length, a status code error, or a transport error or timeout.
\* NoRequest stands in its place for a record whose url did not parse: the
\* call returned before any request.
Rates == { 10, 20 }

NoRequest == [kind |-> "no_request", rate |-> 0]

ProbeResponses ==
    { [kind |-> "body", rate |-> r] : r \in Rates }
        \cup { [kind |-> k, rate |-> 0] : k \in { "no_length", "status", "transport" } }

\* The rate of the record once the answer is handled: Some(rate) is written
\* on a body of known length, and nothing is written otherwise.
MeasuredRate(m, response) ==
    IF response.kind = "body" THEN Some(F(response.rate)) ELSE m.transfer_rate

\* Mirrors::measure_duration runs one worker per slot of the list; the
\* worker of slot i writes the transfer rate of slot i.
\* The slot a worker writes: the one it was handed by par_iter_mut.
WrittenSlotByCompletion(i, done) == Cardinality(done) + 1

WrittenSlot(i, done) == i

\* Mirror::measure_duration up to the request.  Url::parse(..)? and
\* url.join(..)? return Err and leave the record as it is; otherwise
\* self.transfer_rate = None is written and the request is issued, and the
\* worker blocks on it while the other workers run.
measure_duration_request(i) ==
    /\ pc = "probing"
    /\ i \in DOMAIN mirrors
    /\ i \notin probed \cup requested
    /\ IF UrlParses(mirrors[i].url)
       THEN /\ mirrors' = [mirrors EXCEPT ![WrittenSlot(i, probed)].transfer_rate = None]
            /\ requested' = requested \cup { i }
            /\ UNCHANGED << probed, responses >>
       ELSE /\ probed' = probed \cup { i }
            /\ responses' = [responses EXCEPT ![i] = Some(NoRequest)]
            /\ UNCHANGED << mirrors, requested >>
    /\ UNCHANGED << parseVars, runVars, filterVars, excludeVars, self_mirrors, select_n, max_score,
                    stage_ret, result, pc >>

\* Mirror::measure_duration from the answer on: Some(rate) is written on a
\* body of known length, nothing on the other answers.
measure_duration(i, response) ==
    /\ pc = "probing"
    /\ i \in requested
    /\ mirrors' = [mirrors EXCEPT
                       ![WrittenSlot(i, probed)].transfer_rate =
                           MeasuredRate(mirrors[WrittenSlot(i, probed)], response)]
    /\ requested' = requested \ { i }
    /\ probed' = probed \cup { i }
    /\ responses' = [responses EXCEPT ![i] = Some(response)]
    /\ UNCHANGED << parseVars, runVars, filterVars, excludeVars, self_mirrors, select_n, max_score,
                    stage_ret, result, pc >>

\* What Mirror::measure_duration returns: Err on a url that does not parse
\* and on a status code error.
ProbeReturn(response) == IF response.kind \in { "no_request", "status" } THEN "Err" ELSE "Ok"

\* What Mirrors::measure_duration returns: the Err of a slot is logged and
\* dropped, the stage is Ok(()).
StageReturnFirstErr(rets) ==
    IF \E i \in DOMAIN rets : rets[i] = "Err" THEN "Err" ELSE "Ok"

StageReturn(rets) == "Ok"

\* for_each over par_iter_mut returns when every slot has been handled.
AllProbedOrNot(list, done) == TRUE

AllProbed(list, done) == done = DOMAIN list

measure_duration_return ==
    /\ pc = "probing"
    /\ AllProbed(mirrors, probed)
    /\ stage_ret' = StageReturn([i \in probed |-> ProbeReturn(Unwrap(responses[i]))])
    /\ pc' = "probed"
    /\ UNCHANGED << parseVars, runVars, filterVars, excludeVars, self_mirrors, select_n, max_score,
                    probed, requested, responses, mirrors, result >>

ScoreOrNaN(m) == IF m.score # None THEN Unwrap(m.score) ELSE NaN

\* .reduce(f64::max) from slot i on, acc being the maximum so far.
RECURSIVE ReduceMax(_, _, _)
ReduceMax(list, i, acc) ==
    IF i > Len(list) THEN acc
    ELSE ReduceMax(list, i + 1, FMax(acc, ScoreOrNaN(list[i])))

\* The local max_score of score(): 0.0 only when the iterator is empty.
MaxScore(list) ==
    IF list = << >> THEN F(0)
    ELSE ReduceMax(list, 2, ScoreOrNaN(list[1]))

WeightedScoreReversed(m, max) ==
    FMul(IF m.transfer_rate # None THEN Unwrap(m.transfer_rate) ELSE F(0),
         FSub(ScoreOrNaN(m), max))

WeightedScore(m, max) ==
    FMul(IF m.transfer_rate # None THEN Unwrap(m.transfer_rate) ELSE F(0),
         FSub(max, ScoreOrNaN(m)))

\* score() starts when measure_duration has returned, whatever it returned
\* (let _ = ...).
score ==
    /\ pc = "probed"
    /\ max_score' = Some(MaxScore(mirrors))
    /\ mirrors' = [i \in DOMAIN mirrors |->
                       [mirrors[i] EXCEPT
                            !.weighted_score = Some(WeightedScore(mirrors[i], MaxScore(mirrors)))]]
    /\ pc' = "scored"
    /\ UNCHANGED << parseVars, runVars, filterVars, excludeVars, self_mirrors, select_n, probed,
                    requested, responses, stage_ret, result >>

WeightOrZero(m) == IF m.weighted_score # None THEN Unwrap(m.weighted_score) ELSE F(0)

\* aa.partial_cmp(&bb).unwrap() panics when either side is NaN, and a sort
\* of two or more elements compares every element at least once.
SortPanics(list) ==
    /\ Len(list) >= 2
    /\ \E i \in DOMAIN list : WeightOrZero(list[i]).nan

\* The comparator is partial_cmp reversed: descending, and stable.
InsertByWeightUnstable(sorted, m) ==
    LET k == Cardinality({i \in DOMAIN sorted :
                 PartialCmp(WeightOrZero(sorted[i]), WeightOrZero(m)) = "Greater"})
    IN SubSeq(sorted, 1, k) \o << m >> \o SubSeq(sorted, k + 1, Len(sorted))

InsertByWeight(sorted, m) ==
    LET k == Cardinality({i \in DOMAIN sorted :
                 PartialCmp(WeightOrZero(sorted[i]), WeightOrZero(m)) # "Less"})
    IN SubSeq(sorted, 1, k) \o << m >> \o SubSeq(sorted, k + 1, Len(sorted))

RECURSIVE SortByWeight(_)
SortByWeight(list) ==
    IF list = << >> THEN << >>
    ELSE InsertByWeight(SortByWeight(SubSeq(list, 1, Len(list) - 1)), list[Len(list)])

sort_by_weighted_score ==
    /\ pc = "scored"
    /\ IF SortPanics(mirrors)
       THEN /\ result' = "panic"
            /\ pc' = "done"
            /\ UNCHANGED mirrors
       ELSE /\ mirrors' = SortByWeight(mirrors)
            /\ pc' = "sorted"
            /\ UNCHANGED result
    /\ UNCHANGED << parseVars, runVars, filterVars, excludeVars, evalVars >>

select ==
    /\ pc = "sorted"
    /\ mirrors' = Truncate(mirrors, select_n)
    /\ pc' = "selected"
    /\ UNCHANGED << parseVars, runVars, filterVars, excludeVars, evalVars, result >>

\* The end of evaluate: an empty selection is the error "No best mirrors".
evaluate_return ==
    /\ pc = "selected"
    /\ result' = IF mirrors = << >> THEN "NoBestMirrors" ELSE "ok"
    /\ pc' = "done"
    /\ UNCHANGED << parseVars, runVars, filterVars, excludeVars, evalVars, mirrors >>

\* A record whose url does not parse, with a transfer rate given by the
\* document it was deserialized from.
Unparsable ==
    [ Mirror("none", << >>, "https", Some(ONE), Some(2), Some(F(2)), TRUE,
             << "S" >>, << "S" >>)
      EXCEPT !.transfer_rate = Some(F(5)) ]

EvalPool == { SyncedA, SyncedB, SyncedC, Unparsable }

\* A call self.evaluate(n, target_db): mirrors is the clone of self.
InitEval ==
    /\ urls = << >>
    /\ max_check = None
    /\ excluded_mirrors = None
    /\ self_mirrors \in SeqsUpTo(EvalPool, MaxMirrors)
    /\ mirrors = self_mirrors
    /\ select_n \in 0..MaxSelect
    /\ result = "none"
    /\ pc = "probing"
    /\ max_score = None
    /\ probed = { }
    /\ requested = { }
    /\ responses = [i \in DOMAIN self_mirrors |-> None]
    /\ stage_ret = "none"
    /\ rules = << >>
    /\ is_exclude_ret = None
    /\ NotRun

NextEval ==
    \/ \E i \in DOMAIN mirrors : measure_duration_request(i)
    \/ \E i \in DOMAIN mirrors, response \in ProbeResponses : measure_duration(i, response)
    \/ measure_duration_return
    \/ score
    \/ sort_by_weighted_score
    \/ select
    \/ evaluate_return

SpecEval == InitEval /\ [][NextEval]_vars

----
\* run and main (main.rs), with from_online_json (mirror.rs).

\* File::open in read_exclude_from: Err for a path that cannot be opened.
ReadExcludeFails(file) == file = "missing"

\* BufReader::lines on a file that opens and whose every read fails (a
\* directory): next() is Some(Err(_)) each time it is asked.
LineIsErr(file) == file = "directory"

\* if attempts >= max_retries { bail!(..) }
RetriesExhaustedLate(n) == n > max_retries

RetriesExhausted(n) == n >= max_retries

\* base_delay * 2_u32.pow(attempts - 1)
Backoff(n) == base_delay * 2 ^ (n - 1)

\* The ? operator on what a core call returned.
PropagatesNever(res) == FALSE

Propagates(res) == res # "ok"

\* main: Err(_) => ExitCode::FAILURE, Ok(()) => ExitCode::SUCCESS.
ExitCodeAlwaysSuccess(err) == "SUCCESS"

ExitCode(err) == IF err # "none" THEN "FAILURE" ELSE "SUCCESS"

\* The two bail! on an output file or stats file that exists already, then
\* build_global()?: the rayon pool is built, or a worker thread cannot be
\* spawned (--threads beyond what the machine allows) and run returns the
\* error.  outcome is what build_global returned.  The tracing subscriber is
\* set before them: try_init fails only when a subscriber is set already,
\* and run is called once, by main.
run_checks(outcome) ==
    /\ pc = "run"
    /\ IF arguments.output_file = "exists"
       THEN /\ error' = "OutputExists"
            /\ pc' = "returned"
       ELSE IF arguments.stats_file = "exists"
            THEN /\ error' = "StatsExists"
                 /\ pc' = "returned"
            ELSE IF outcome = "Err"
                 THEN /\ error' = "ThreadPoolError"
                      /\ pc' = "returned"
                 ELSE /\ pc' = "exclude"
                      /\ UNCHANGED error
    /\ UNCHANGED << parseVars, filterVars, evalVars, excludeVars, mirrors, result,
                    arguments, dropped, attempts, calls, slept, outputs, exit_code >>

\* The exclusion list: --exclude merged with the lines of --exclude-from,
\* None when the merge is empty.  list is what the merge gives, sorted and
\* without duplicates, when the file, if any, can be read.  filter_map(|line| line.ok()) drops a line that is
\* Err and asks for the next: on a file whose every read fails the call
\* drops Err after Err and does not return.
read_exclude_from(list) ==
    /\ pc = "exclude"
    /\ IF ReadExcludeFails(arguments.exclude_from)
       THEN /\ error' = "ConfigError"
            /\ pc' = "returned"
            /\ UNCHANGED << excluded_mirrors, dropped >>
       ELSE IF LineIsErr(arguments.exclude_from)
            THEN /\ dropped < MaxReadErrors
                 /\ dropped' = dropped + 1
                 /\ UNCHANGED << excluded_mirrors, error, pc >>
            ELSE /\ excluded_mirrors' = list
                 /\ pc' = "fetch"
                 /\ UNCHANGED << error, dropped >>
    /\ UNCHANGED << parseVars, urls, max_check, evalVars, excludeVars, mirrors, result,
                    arguments, attempts, calls, slept, outputs, exit_code >>

\* One turn of the loop of from_online_json: agent.get(url).call().
from_online_json_call(outcome) ==
    /\ pc = "fetch"
    /\ calls' = calls + 1
    /\ IF outcome = "Ok"
       THEN /\ pc' = "parse"
            /\ UNCHANGED << attempts, slept, error >>
       ELSE /\ attempts' = attempts + 1
            /\ IF RetriesExhausted(attempts + 1)
               THEN /\ error' = "FetchFailure"
                    /\ pc' = "returned"
                    /\ UNCHANGED slept
               ELSE /\ slept' = Backoff(attempts + 1)
                    /\ pc' = "fetch"
                    /\ UNCHANGED error
    /\ UNCHANGED << parseVars, filterVars, evalVars, excludeVars, mirrors, result,
                    arguments, dropped, outputs, exit_code >>

\* read_json::<MirrorsStatus>() on the body of the response.
read_json(outcome, catalog) ==
    /\ pc = "parse"
    /\ IF outcome = "Ok"
       THEN /\ urls' = catalog
            /\ pc' = "filter"
            /\ UNCHANGED error
       ELSE /\ error' = "ParseFailure"
            /\ pc' = "returned"
            /\ UNCHANGED urls
    /\ UNCHANGED << parseVars, max_check, excluded_mirrors, evalVars, excludeVars, mirrors,
                    result, arguments, dropped, attempts, calls, slept, outputs, exit_code >>

\* best_synced_mirrors(..)? and the call of evaluate on what it returned.
run_best_synced ==
    /\ pc = "filtered"
    /\ IF result = "panic"
       THEN /\ exit_code' = "panic"
            /\ pc' = "exit"
            /\ UNCHANGED << error, self_mirrors, responses >>
       ELSE IF Propagates(result)
            THEN /\ error' = result
                 /\ pc' = "returned"
                 /\ UNCHANGED << exit_code, self_mirrors, responses >>
            ELSE /\ self_mirrors' = mirrors
                 /\ responses' = [i \in DOMAIN mirrors |-> None]
                 /\ pc' = "probing"
                 /\ UNCHANGED << exit_code, error >>
    /\ UNCHANGED << parseVars, filterVars, excludeVars, select_n, max_score, probed, requested, stage_ret,
                    mirrors, result, arguments, dropped, attempts, calls, slept, outputs >>

\* evaluate(..)?
run_evaluate ==
    /\ pc = "done"
    /\ IF result = "panic"
       THEN /\ exit_code' = "panic"
            /\ pc' = "exit"
            /\ UNCHANGED error
       ELSE IF Propagates(result)
            THEN /\ error' = result
                 /\ pc' = "returned"
                 /\ UNCHANGED exit_code
            ELSE /\ pc' = "write"
                 /\ UNCHANGED << exit_code, error >>
    /\ UNCHANGED << parseVars, filterVars, evalVars, excludeVars, mirrors, result,
                    arguments, dropped, attempts, calls, slept, outputs >>

\* The mirror list goes to the output file, or to stdout when there is none.
\* create_new fails before anything is written, write_all after; print!
\* panics when stdout cannot be written.
to_mirrorlist_file(outcome) ==
    /\ pc = "write"
    /\ IF arguments.output_file = "none"
       THEN IF outcome = "Ok"
            THEN /\ outputs' = outputs \cup { "stdout" }
                 /\ pc' = "stats"
                 /\ UNCHANGED << error, exit_code >>
            ELSE /\ exit_code' = "panic"
                 /\ pc' = "exit"
                 /\ UNCHANGED << error, outputs >>
       ELSE IF outcome = "Ok"
            THEN /\ outputs' = outputs \cup { "mirrorlist" }
                 /\ pc' = "stats"
                 /\ UNCHANGED << error, exit_code >>
            ELSE /\ outputs' = IF outcome = "WriteErr"
                               THEN outputs \cup { "mirrorlist" } ELSE outputs
                 /\ error' = "WriteFailure"
                 /\ pc' = "returned"
                 /\ UNCHANGED exit_code
    /\ UNCHANGED << parseVars, filterVars, evalVars, excludeVars, mirrors, result,
                    arguments, dropped, attempts, calls, slept >>

\* The stats file, when one is asked for; then run returns.
to_csv(outcome) ==
    /\ pc = "stats"
    /\ IF arguments.stats_file = "none"
       THEN UNCHANGED << outputs, error >>
       ELSE IF outcome = "Ok"
            THEN /\ outputs' = outputs \cup { "stats" }
                 /\ UNCHANGED error
            ELSE /\ outputs' = IF outcome = "WriteErr"
                               THEN outputs \cup { "stats" } ELSE outputs
                 /\ error' = "StatsFailure"
    /\ pc' = "returned"
    /\ UNCHANGED << parseVars, filterVars, evalVars, excludeVars, mirrors, result,
                    arguments, dropped, attempts, calls, slept, exit_code >>

main ==
    /\ pc = "returned"
    /\ exit_code' = ExitCode(error)
    /\ pc' = "exit"
    /\ UNCHANGED << parseVars, filterVars, evalVars, excludeVars, mirrors, result,
                    arguments, dropped, attempts, calls, slept, error, outputs >>

\* What the runs are given: a file argument is absent ("none") or names a
\* path that exists or not; --exclude-from names a file that can be read, a
\* path that cannot be opened ("missing") or one that opens and cannot be
\* read ("directory").
FileArguments ==
    [ output_file : { "none", "absent", "exists" },
      stats_file : { "none", "absent", "exists" },
      exclude_from : { "none", "readable", "missing", "directory" } ]

\* A record of a document that gives "transfer_rate" and "weighted_score":
\* Mirror derives Deserialize and the two fields are not skipped.
Supplied ==
    [ Mirror("domain", << "s" >>, "https", Some(ONE), Some(1), Some(F(2)), TRUE,
             << "S" >>, << "S" >>)
      EXCEPT !.transfer_rate = Some(F(5)), !.weighted_score = Some(F(7)) ]

RunPool == { SyncedA, SyncedC, Supplied, Unparsable }

RunExcludes == { None, Some(<< Domain(<< "a" >>, FALSE) >>) }

RunResponses == { [kind |-> "body", rate |-> 10], [kind |-> "status", rate |-> 0] }

CallOutcomes == { "Ok", "Err" }

WriteOutcomes == { "Ok", "OpenErr", "WriteErr" }

\* The process as main starts it; arguments.max_check and arguments.mirrors
\* are what the filter and evaluate are called with.
InitRun ==
    /\ arguments \in FileArguments
    /\ max_check \in { Some(k) : k \in 0..MaxCheck }
    /\ select_n \in 0..MaxSelect
    /\ urls = << >>
    /\ excluded_mirrors = None
    /\ mirrors = << >>
    /\ self_mirrors = << >>
    /\ result = "none"
    /\ pc = "run"
    /\ max_score = None
    /\ probed = { }
    /\ requested = { }
    /\ responses = << >>
    /\ stage_ret = "none"
    /\ rules = << >>
    /\ is_exclude_ret = None
    /\ attempts = 0
    /\ calls = 0
    /\ slept = 0
    /\ error = "none"
    /\ outputs = { }
    /\ exit_code = "none"
    /\ dropped = 0
    /\ line = << >>
    /\ parsed = << >>
    /\ add_from_ret = << >>

NextRun ==
    \/ \E outcome \in CallOutcomes : run_checks(outcome)
    \/ \E list \in RunExcludes : read_exclude_from(list)
    \/ \E outcome \in CallOutcomes : from_online_json_call(outcome)
    \/ \E outcome \in CallOutcomes, catalog \in SeqsUpTo(RunPool, MaxRunUrls) :
           read_json(outcome, catalog)
    \/ best_synced_mirrors
    \/ run_best_synced
    \/ \E i \in DOMAIN mirrors : measure_duration_request(i)
    \/ \E i \in DOMAIN mirrors, response \in RunResponses : measure_duration(i, response)
    \/ measure_duration_return
    \/ score
    \/ sort_by_weighted_score
    \/ select
    \/ evaluate_return
    \/ run_evaluate
    \/ \E outcome \in WriteOutcomes : to_mirrorlist_file(outcome)
    \/ \E outcome \in WriteOutcomes : to_csv(outcome)
    \/ main

SpecRun == InitRun /\ [][NextRun]_vars

\* from_online_json called on its own, and the filter called on the
\* MirrorsStatus it returns.
InitFetch ==
    /\ arguments = NoArguments
    /\ max_check \in { Some(k) : k \in 0..MaxCheck }
    /\ excluded_mirrors \in RunExcludes
    /\ select_n = 0
    /\ urls = << >>
    /\ mirrors = << >>
    /\ self_mirrors = << >>
    /\ result = "none"
    /\ pc = "fetch"
    /\ max_score = None
    /\ probed = { }
    /\ requested = { }
    /\ responses = << >>
    /\ stage_ret = "none"
    /\ rules = << >>
    /\ is_exclude_ret = None
    /\ attempts = 0
    /\ calls = 0
    /\ slept = 0
    /\ error = "none"
    /\ outputs = { }
    /\ exit_code = "none"
    /\ dropped = 0
    /\ line = << >>
    /\ parsed = << >>
    /\ add_from_ret = << >>

FetchPool == { SyncedA, NoDelay }

NextFetch ==
    \/ \E outcome \in CallOutcomes : from_online_json_call(outcome)
    \/ \E outcome \in CallOutcomes, catalog \in SeqsUpTo(FetchPool, MaxRunUrls) :
           read_json(outcome, catalog)
    \/ best_synced_mirrors

\* The thread runs until the call returns, and every request returns: the
\* agent has a global timeout of 5 seconds.
SpecFetch == InitFetch /\ [][NextFetch]_vars /\ WF_vars(NextFetch)

----
\* Properties of the sync filter.

Range(list) == { list[i] : i \in DOMAIN list }
Min(a, b) == IF a <= b THEN a ELSE b
IsPrefix(a, b) == Len(a) <= Len(b) /\ a = SubSeq(b, 1, Len(a))

Returned == pc = "filtered" /\ result = "ok"

\* The records that pass the eligibility predicate and the exclusion rules,
\* in catalog order (defined where is_exclude returns for every record).
Survivors ==
    LET Pass(m) ==
            /\ Eligible(m)
            /\ (excluded_mirrors # None => ~is_exclude(Unwrap(excluded_mirrors), m))
    IN SelectSeq(urls, Pass)

\* C1: every record of the list best_synced_mirrors returns is active, has
\* protocol http or https, a completion that is present and within EPSILON of
\* 1.0, and a delay that is present and below 3600.
C1_OutputEligible ==
    Returned =>
        \A i \in DOMAIN mirrors :
            /\ mirrors[i].active = TRUE
            /\ mirrors[i].protocol \in { "http", "https" }
            /\ mirrors[i].completion_pct # None
            /\ Abs(mirrors[i].completion_pct[1] - ONE) < EPSILON
            /\ mirrors[i].delay # None
            /\ mirrors[i].delay[1] < DelayLimit

C1_Witness ==
    /\ Returned
    /\ \E j \in DOMAIN urls : urls[j] = NoDelay
    /\ \E j \in DOMAIN urls : urls[j] = Late
    /\ mirrors # << >>

\* C2: with max_check = Some(0) and no panic, the call succeeds whenever some
\* record passes the predicate and the rules, and returns all of them.
C2_ZeroMeansNoLimit ==
    ( /\ pc = "filtered"
      /\ max_check = Some(0)
      /\ result # "panic"
      /\ Survivors # << >> )
    => /\ result = "ok"
       /\ Len(mirrors) = Len(Survivors)

\* C3: with max_check = Some(k), k > 0, a call that returns gives the first
\* min(k, c) records of the delay-sorted survivors, c being their number; it
\* returns whenever c > 0.
C3_TruncateAfterSort ==
    ( /\ pc = "filtered"
      /\ result # "panic"
      /\ max_check # None
      /\ max_check[1] > 0 )
    => LET k == max_check[1]
           c == Len(Survivors)
       IN /\ Len(mirrors) = Min(k, c)
          /\ mirrors = SubSeq(SortByDelay(Survivors), 1, Min(k, c))
          /\ (c > 0 => result = "ok")

C3_Witness ==
    /\ Returned
    /\ max_check # None
    /\ max_check[1] > 0
    /\ excluded_mirrors # None
    /\ Len(Survivors) > max_check[1]
    /\ Len(PrimaryFilter(urls)) > Len(Survivors)
    /\ SortByDelay(Survivors) # Survivors

\* C4: the returned list is non-decreasing in delay, and records of equal
\* delay keep the order they have in the catalog.
C4_SortedStable ==
    Returned =>
        /\ \A i, j \in DOMAIN mirrors :
               i < j => mirrors[i].delay[1] <= mirrors[j].delay[1]
        /\ \A i \in DOMAIN mirrors :
               LET SameDelayOut(m) == m.delay = mirrors[i].delay
                   SameDelayIn(m) == m.delay = mirrors[i].delay /\ m \in Range(mirrors)
               IN IsPrefix(SelectSeq(mirrors, SameDelayOut), SelectSeq(urls, SameDelayIn))

C4_Witness ==
    /\ Returned
    /\ \E i, j \in DOMAIN mirrors :
           i < j /\ mirrors[i].delay = mirrors[j].delay /\ mirrors[i] # mirrors[j]
    /\ \E i, j \in DOMAIN mirrors : mirrors[i].delay[1] < mirrors[j].delay[1]
    /\ \E i, j \in DOMAIN urls :
           i < j /\ DelayLess(urls[j].delay, urls[i].delay)
                 /\ urls[i] \in Range(mirrors) /\ urls[j] \in Range(mirrors)

\* What no truncation means for the list that comes back.
NotTruncated == max_check = None \/ max_check[1] >= Len(urls)

\* C6: with a rule set, no returned record is one is_exclude is true of, and
\* short of truncation every eligible record it is false of is returned;
\* without a rule set every eligible record is returned.
C6_ExclusionApplied ==
    ( pc = "filtered" /\ result # "panic" ) =>
        /\ excluded_mirrors # None =>
               \A i \in DOMAIN mirrors : ~is_exclude(excluded_mirrors[1], mirrors[i])
        /\ ( excluded_mirrors # None /\ NotTruncated ) =>
               \A j \in DOMAIN urls :
                   ( Eligible(urls[j]) /\ ~is_exclude(excluded_mirrors[1], urls[j]) )
                       => urls[j] \in Range(mirrors)
        /\ ( excluded_mirrors = None /\ NotTruncated ) =>
               \A j \in DOMAIN urls : Eligible(urls[j]) => urls[j] \in Range(mirrors)

C6_Witness ==
    /\ Returned
    /\ excluded_mirrors # None
    /\ \E j \in DOMAIN urls :
           Eligible(urls[j]) /\ is_exclude(excluded_mirrors[1], urls[j])
    /\ \E j \in DOMAIN urls :
           /\ Eligible(urls[j])
           /\ \E r \in DOMAIN excluded_mirrors[1] : excluded_mirrors[1][r].negate
           /\ ~is_exclude(excluded_mirrors[1], urls[j])
           /\ is_exclude(SelectSeq(excluded_mirrors[1], LAMBDA x : ~x.negate), urls[j])

\* The records that remain after the predicate, the exclusion rules (the
\* domain key being the host of the url) and the truncation.
Remaining ==
    LET Key(m) == to_lowercase(m.url.host)
        Pass(m) ==
            /\ Eligible(m)
            /\ ( excluded_mirrors # None =>
                   ~ScanRules(excluded_mirrors[1], Len(excluded_mirrors[1]), Key(m),
                              to_lowercase(m.country), to_lowercase(m.country_code)) )
        kept == SelectSeq(urls, Pass)
    IN IF max_check # None THEN Truncate(kept, max_check[1]) ELSE kept

\* C7: the call ends in the error NoCandidates exactly when no record
\* remains, and otherwise returns a non-empty list.
C7_ErrorIffEmpty ==
    pc = "filtered" =>
        /\ result \in { "ok", "NoCandidates" }
        /\ result = "NoCandidates" <=> Remaining = << >>
        /\ result = "ok" => mirrors # << >>

----
\* Properties of the exclusion engine.

\* The rules of a list that match a mirror on the key of their kind.
MatchingRules(list, m) ==
    { i \in DOMAIN list :
        \/ list[i].kind = "Domain" /\ list[i].value = to_lowercase(m.url.host)
        \/ list[i].kind = "Country" /\ list[i].value = to_lowercase(m.country)
        \/ list[i].kind = "CountryCode" /\ list[i].value = to_lowercase(m.country_code) }

LastOf(S) == CHOOSE i \in S : \A j \in S : j <= i

\* C5: where is_exclude returns, the last-defined matching rule decides:
\* true when it is not negated, false when it is, false when no rule matches.
\* [Domain a, !Domain a] keeps a mirror of domain a, [!Domain a, Domain a]
\* excludes it.
C5_LastMatchWins ==
    ( is_exclude_ret # None /\ is_exclude_ret[1].value # "panic" ) =>
        LET r == is_exclude_ret[1]
            matching == MatchingRules(r.list, r.mirror)
        IN /\ r.value = IF matching = { } THEN "false"
                        ELSE IF r.list[LastOf(matching)].negate THEN "false"
                        ELSE "true"
           /\ ( r.mirror = SyncedA
                /\ r.list = << Domain(<< "a" >>, FALSE), Domain(<< "a" >>, TRUE) >> )
              => r.value = "false"
           /\ ( r.mirror = SyncedA
                /\ r.list = << Domain(<< "a" >>, TRUE), Domain(<< "a" >>, FALSE) >> )
              => r.value = "true"

C5_Witness ==
    /\ is_exclude_ret # None
    /\ is_exclude_ret[1].mirror = SyncedA
    /\ is_exclude_ret[1].list = << Domain(<< "a" >>, TRUE), Domain(<< "a" >>, FALSE) >>
    /\ is_exclude_ret[1].value = "true"

----
\* Properties of evaluate.

\* C8: evaluate ends either with a list of min(n, number of input mirrors)
\* records, which is not empty, or with the error NoBestMirrors, and with the
\* error exactly when the input is empty or n = 0.
C8_NeverEmptySuccess ==
    pc = "done" =>
        /\ result \in { "ok", "NoBestMirrors" }
        /\ result = "NoBestMirrors" <=> ( self_mirrors = << >> \/ select_n = 0 )
        /\ result = "ok" =>
               /\ mirrors # << >>
               /\ Len(mirrors) = Min(select_n, Len(self_mirrors))

\* The maximum of the scores that are present, 0.0 when there is none.
PresentScores(list) == { list[i].score[1].val : i \in { j \in DOMAIN list : list[j].score # None } }

PresentMax(list) ==
    IF PresentScores(list) = { } THEN F(0)
    ELSE F(CHOOSE v \in PresentScores(list) : \A w \in PresentScores(list) : w <= v)

\* C9: once score() has run, every record has a weighted score, equal to
\* r * (M - s): r its transfer rate (0 when absent), s its upstream score
\* (NaN when absent), M the maximum over the scores of the records scored.
C9_WeightedScoreExact ==
    pc = "scored" =>
        \A i \in DOMAIN mirrors :
            LET m == mirrors[i]
                r == IF m.transfer_rate = None THEN 0 ELSE m.transfer_rate[1].val
            IN /\ m.weighted_score # None
               /\ IF m.score = None
                  THEN m.weighted_score[1] = NaN
                  ELSE m.weighted_score[1] = F(r * (PresentMax(mirrors).val - m.score[1].val))

C9_Witness ==
    /\ pc = "scored"
    /\ \E i, j \in DOMAIN mirrors :
           /\ mirrors[i].transfer_rate # None
           /\ mirrors[i].score # None
           /\ mirrors[i].weighted_score[1].val > 0
           /\ mirrors[j].transfer_rate = None
           /\ mirrors[j].score # None
           /\ mirrors[j].score # mirrors[i].score

\* C10: max_score is the maximum over the scores that are present, and 0.0
\* when no record has a score, the list being empty or not.
C10_MaxOverPresent ==
    pc = "scored" => max_score = Some(PresentMax(mirrors))

\* C11: sort_by_weighted_score completes on every list, and leaves every
\* record that has no upstream score behind every record that has one.
C11_MissingRanksLast ==
    pc \in { "sorted", "selected", "done" } =>
        /\ result # "panic"
        /\ pc = "sorted" =>
               \A i, j \in DOMAIN mirrors :
                   ( mirrors[i].score = None /\ mirrors[j].score # None ) => j < i

\* The records of a list whose weighted score is w, in the order of the list.
WeightGroup(list, w) ==
    LET Same(m) == WeightOrZero(m) = w
    IN SelectSeq(list, Same)

\* C12: a sort_by_weighted_score that completes leaves the list in
\* non-increasing order of weighted score, the records of equal weighted
\* score (those of weight 0 for a missing rate among them) in the order they
\* had before.
C12_DescendingStable ==
    [][ ( pc = "scored" /\ pc' = "sorted" ) =>
            /\ \A i, j \in DOMAIN mirrors' :
                   i < j => WeightOrZero(mirrors'[i]).val >= WeightOrZero(mirrors'[j]).val
            /\ \A k \in DOMAIN mirrors :
                   WeightGroup(mirrors', WeightOrZero(mirrors[k]))
                       = WeightGroup(mirrors, WeightOrZero(mirrors[k])) ]_vars

C12_Witness ==
    /\ pc = "sorted"
    /\ Len(mirrors) >= 3
    /\ mirrors[1].url # self_mirrors[1].url
    /\ WeightOrZero(mirrors[1]).val > 0
    /\ \E i, j \in DOMAIN mirrors :
           /\ i < j
           /\ mirrors[i].url # mirrors[j].url
           /\ mirrors[i].transfer_rate = None
           /\ mirrors[j].transfer_rate = None
           /\ WeightOrZero(mirrors[i]) = WeightOrZero(mirrors[j])

\* C13: when every probe gave a rate and all records have the same upstream
\* score, evaluate(1) returns the one record whose rate is the highest.
C13_HighestRateWins ==
    ( /\ pc = "done"
      /\ select_n = 1
      /\ self_mirrors # << >>
      /\ \A i \in DOMAIN self_mirrors :
             /\ responses[i] # None
             /\ Unwrap(responses[i]).kind = "body"
             /\ self_mirrors[i].score # None
             /\ self_mirrors[i].score = self_mirrors[1].score )
    => /\ result = "ok"
       /\ Len(mirrors) = 1
       /\ \A i \in DOMAIN self_mirrors :
              Unwrap(responses[i]).rate <= Unwrap(mirrors[1].transfer_rate).val

\* C14: Mirrors::measure_duration returns Ok(()) whatever the probes did; a
\* probe that failed (transport, status code, no content length) leaves the
\* rate of its record absent, a probe that got a body leaves its rate, and
\* every record has been probed when the stage returns.
C14_ProbeStageNeverFails ==
    /\ pc \in { "probing", "probed" } =>
           \A i \in probed :
               Unwrap(responses[i]).kind # "no_request" =>
                   mirrors[i].transfer_rate =
                       IF Unwrap(responses[i]).kind = "body"
                       THEN Some(F(Unwrap(responses[i]).rate))
                       ELSE None
    /\ pc # "probing" =>
           /\ stage_ret = "Ok"
           /\ requested = { }
           /\ \A i \in DOMAIN self_mirrors : responses[i] # None

C14_Witness ==
    /\ pc = "probed"
    /\ stage_ret = "Ok"
    /\ \E i, j, k \in DOMAIN mirrors :
           /\ Unwrap(responses[i]).kind = "status"
           /\ Unwrap(responses[j]).kind = "transport"
           /\ Unwrap(responses[k]).kind = "body"
           /\ mirrors[k].transfer_rate # None

\* The rate a record has once its probe has returned: the one it came with
\* when its url did not parse, the measured one on a body of known length,
\* and none otherwise.
RateAfterProbe(m, response) ==
    IF response.kind = "no_request" THEN m.transfer_rate
    ELSE IF response.kind = "body" THEN Some(F(response.rate))
    ELSE None

\* evaluate computed slot by slot from the list, the answers and n.
ProbedList(list, answers) ==
    [i \in DOMAIN list |->
         [list[i] EXCEPT !.transfer_rate = RateAfterProbe(list[i], Unwrap(answers[i]))]]

ScoredList(list) ==
    [i \in DOMAIN list |->
         [list[i] EXCEPT !.weighted_score = Some(WeightedScore(list[i], MaxScore(list)))]]

\* C15: while the probes run every slot holds its own record, with the rate
\* of its own probe and nothing else written; what evaluate returns is
\* determined by the list, the answers of the mirrors and n, whatever the
\* order the probes completed in.
C15_OrderIndependent ==
    /\ pc \in { "probing", "probed" } =>
           \A i \in DOMAIN self_mirrors :
               mirrors[i] =
                   [self_mirrors[i] EXCEPT
                        !.transfer_rate =
                            IF i \in probed
                            THEN RateAfterProbe(self_mirrors[i], Unwrap(responses[i]))
                            ELSE IF i \in requested THEN None
                            ELSE self_mirrors[i].transfer_rate]
    /\ pc = "done" =>
           LET scored == ScoredList(ProbedList(self_mirrors, responses))
           IN IF SortPanics(scored)
              THEN result = "panic"
              ELSE /\ mirrors = Truncate(SortByWeight(scored), select_n)
                   /\ result = IF mirrors = << >> THEN "NoBestMirrors" ELSE "ok"

C15_Witness ==
    /\ pc = "done"
    /\ result = "ok"
    /\ Len(self_mirrors) >= 2
    /\ mirrors[1].url # self_mirrors[1].url
    /\ \E i, j \in DOMAIN self_mirrors : responses[i] # responses[j]

\* C16: score, sort and select run on a list every slot of which has been
\* probed: once evaluate is past the probe stage, no probe is outstanding.
C16_ProbeBarrier ==
    pc \in { "scored", "sorted", "selected", "done" } =>
        /\ probed = DOMAIN self_mirrors
        /\ requested = { }
        /\ stage_ret # "none"

C16_Witness ==
    /\ pc = "scored"
    /\ Len(mirrors) >= 2
    /\ \E i, j \in DOMAIN mirrors :
           /\ mirrors[i].transfer_rate # None
           /\ mirrors[j].transfer_rate = None

----
\* Properties of run and main.

\* What holds of the retry loop in every state.
RetryBounded ==
    /\ calls <= max_retries
    /\ attempts <= max_retries
    /\ error = "FetchFailure" <=> attempts = max_retries
    /\ error = "FetchFailure" => calls = max_retries
    /\ ( calls > 0 /\ calls = attempts /\ attempts < max_retries ) => pc = "fetch"
    /\ error = "ParseFailure" =>
           /\ calls = attempts + 1
           /\ pc \in { "returned", "exit" }

\* C17: a call that fails is followed by another, until the fifth failure of
\* from_online_json, which is fatal: no more than max_retries requests are
\* ever issued and the loop is left.  A body that does not deserialize is
\* fatal at once, and no request is issued after it.
C17_RetryThenFatal ==
    /\ []RetryBounded
    /\ [][ error = "ParseFailure" => calls' = calls ]_vars
    /\ ( pc = "fetch" ) ~> ( pc # "fetch" )

C17_Witness ==
    /\ pc = "returned"
    /\ error = "ParseFailure"
    /\ attempts = max_retries - 1
    /\ calls = max_retries
    /\ slept = 8

\* C18: the process ends with a failure code whenever from_online_json,
\* best_synced_mirrors or evaluate returned an error; when evaluate returned
\* a selection and writing it did not fail, it ends with success, whatever
\* the probes did.
C18_ExitCode ==
    pc = "exit" =>
        /\ error \in { "FetchFailure", "ParseFailure", "NoCandidates", "NoBestMirrors" }
               => exit_code = "FAILURE"
        /\ result \in { "NoCandidates", "NoBestMirrors" } => exit_code # "SUCCESS"
        /\ ( /\ result = "ok"
             /\ stage_ret = "Ok"
             /\ error \notin { "WriteFailure", "StatsFailure" }
             /\ exit_code # "panic" )
           => exit_code = "SUCCESS"

C18_Witness ==
    /\ pc = "exit"
    /\ exit_code = "SUCCESS"
    /\ Len(self_mirrors) >= 2
    /\ \A i \in DOMAIN self_mirrors : Unwrap(responses[i]).kind = "status"
    /\ mirrors # << >>
    /\ outputs # { }

\* C19: once a fetch, parse, configuration, NoCandidates or NoBestMirrors
\* error has been returned, nothing has been written to the mirrorlist file,
\* to stdout or to the stats file, and the process does not end with success.
C19_NoPartialOutput ==
    ( \/ error \in { "ConfigError", "FetchFailure", "ParseFailure",
                     "NoCandidates", "NoBestMirrors" }
      \/ result \in { "NoCandidates", "NoBestMirrors" } )
    => /\ outputs = { }
       /\ exit_code # "SUCCESS"

C19_Witness ==
    /\ pc = "exit"
    /\ error = "NoBestMirrors"
    /\ exit_code = "FAILURE"
    /\ arguments.output_file = "absent"
    /\ arguments.stats_file = "absent"
    /\ probed # { }
    /\ outputs = { }

\* The exclusion file of the run cannot be read: its path cannot be opened,
\* or it opens and every read fails.
CannotBeRead == arguments.exclude_from \in { "missing", "directory" }

\* C20: in a run whose exclusion file cannot be read, no request is issued to
\* the status server and no mirror is probed; once read_exclude_from has tried
\* the file the run holds the configuration error, and the process ends with
\* a failure code; the configuration error is returned only in such a run.
C20_ConfigErrorBeforeNetwork ==
    /\ CannotBeRead =>
           /\ calls = 0
           /\ probed = { }
           /\ requested = { }
           /\ pc \in { "run", "exclude", "returned", "exit" }
           /\ ( \/ dropped > 0
                \/ /\ pc \in { "returned", "exit" }
                   /\ error \notin { "OutputExists", "StatsExists", "ThreadPoolError" } )
              => error = "ConfigError"
           /\ pc = "exit" => exit_code = "FAILURE"
    /\ error = "ConfigError" => CannotBeRead

----
\* Properties of the rule parser.

\* The line of the call as the grammar looks at it: comment removed, trimmed,
\* in lower case.
Body == to_lowercase(Trim(RemoveComment(Trim(line))))

\* A value or a bare token: one or more characters, none of them whitespace
\* or one of the marks of the grammar.
IsValueToken(x) ==
    /\ x # << >>
    /\ \A i \in DOMAIN x : ~IsWhitespace(x[i]) /\ x[i] \notin { "=", "!", "#", ";" }

\* s is blanks, '=', blanks and a value token: the value, None otherwise.
ValueAfterEquals(s) ==
    LET ink == { i \in DOMAIN s : s[i] # " " }
    IN IF ink = { } \/ s[Least(ink)] # "=" THEN None
       ELSE LET x == SubSeq(s, Least(ink) + 1, Len(s))
                xink == { i \in DOMAIN x : x[i] # " " }
                v == IF xink = { } THEN << >> ELSE SubSeq(x, Least(xink), Len(x))
            IN IF IsValueToken(v) THEN Some(v) ELSE None

\* s is ["!"] kw "=" value: the negation and the value, None otherwise.
KeywordForm(s, kw) ==
    LET negate == s # << >> /\ s[1] = "!"
        t == IF negate THEN Tail(s) ELSE s
    IN IF Len(t) > Len(kw) /\ SubSeq(t, 1, Len(kw)) = kw
          /\ ValueAfterEquals(SubSeq(t, Len(kw) + 1, Len(t))) # None
       THEN Some([ negate |-> negate,
                   value |-> Unwrap(ValueAfterEquals(SubSeq(t, Len(kw) + 1, Len(t)))) ])
       ELSE None

\* s is ["!"] token: the negation and the token, None otherwise.
BareForm(s) ==
    LET negate == s # << >> /\ s[1] = "!"
        t == IF negate THEN Tail(s) ELSE s
    IN IF IsValueToken(t) THEN Some([ negate |-> negate, value |-> t ]) ELSE None

\* The line without its leading '!' and the blanks behind it.
AfterLeadingMark(s) ==
    IF s # << >> /\ s[1] = "!" THEN Trim(Tail(s)) ELSE s

\* s is ["!"] rule, rule being ["!"] kw "=" value: the value, and the negation
\* of a '!' that leads the line or stands on the keyword; None otherwise.
KeywordLine(s, kw) ==
    LET form == KeywordForm(AfterLeadingMark(s), kw)
    IN IF form = None THEN None
       ELSE Some([ negate |-> ( s[1] = "!" ) \/ Unwrap(form).negate,
                   value |-> Unwrap(form).value ])

\* C21: try_from returns Ignore for a line that is blank or a comment only;
\* for a line domain = X, country = X or country_code = X (blanks around '='
\* optional, a comment after it) the rule of that kind with the value X in
\* lower case, negated exactly when a '!' leads the whole line or stands on
\* the keyword; for a line ["!"] token the Domain rule of the token, negated
\* exactly when the '!' is there.
C21_ParseGrammar ==
    parsed # None =>
        /\ Body = << >> => Unwrap(parsed) = Ignore
        /\ KeywordLine(Body, KwDomain) # None =>
               Unwrap(parsed) = Domain(Unwrap(KeywordLine(Body, KwDomain)).value,
                                       Unwrap(KeywordLine(Body, KwDomain)).negate)
        /\ KeywordLine(Body, KwCountry) # None =>
               Unwrap(parsed) = Country(Unwrap(KeywordLine(Body, KwCountry)).value,
                                        Unwrap(KeywordLine(Body, KwCountry)).negate)
        /\ KeywordLine(Body, KwCountryCode) # None =>
               Unwrap(parsed) = CountryCode(Unwrap(KeywordLine(Body, KwCountryCode)).value,
                                            Unwrap(KeywordLine(Body, KwCountryCode)).negate)
        /\ BareForm(Body) # None =>
               Unwrap(parsed) = Domain(Unwrap(BareForm(Body)).value,
                                       Unwrap(BareForm(Body)).negate)

\* The lines of a file that are not blank and not a comment only.
RuleLines(content) ==
    LET HasRule(l) == Trim(RemoveComment(Trim(l))) # << >>
    IN SelectSeq(Lines(content), HasRule)

\* C22: a call of add_from that returns Ok appends to the rule set the rules
\* parsed from the lines of the file that are not blank and not a comment
\* only, in the order of the lines, and nothing else; one that returns Err
\* appends nothing; the rule set never holds an Ignore entry, whatever add and
\* add_from calls built it.
C22_AddFromExact ==
    /\ [] ( \A i \in DOMAIN rules : rules[i] # Ignore )
    /\ [][ add_from_ret' # add_from_ret =>
               LET call == Unwrap(add_from_ret')
                   kept == RuleLines(call.file.content)
               IN IF call.value = "Ok"
                  THEN rules' = rules \o [i \in DOMAIN kept |-> try_from(kept[i])]
                  ELSE rules' = rules ]_vars

C22_Witness ==
    /\ add_from_ret = Some([ file |-> FileA, value |-> "Ok" ])
    /\ rules = << CountryCode(<< "y" >>, FALSE), Domain(<< "a" >>, FALSE),
                  Domain(<< "a" >>, TRUE) >>

----
\* Properties of the computed fields.

\* C23: every record best_synced_mirrors returns has no transfer rate and
\* no weighted score; until score() has run no record has a weighted score,
\* and a record has a transfer rate only when its probe has returned with a
\* body of known length.
C23_ComputedAbsentUntilRun ==
    /\ ( pc = "filtered" /\ result = "ok" ) =>
           \A i \in DOMAIN mirrors :
               /\ mirrors[i].transfer_rate = None
               /\ mirrors[i].weighted_score = None
    /\ pc \in { "probing", "probed" } =>
           \A i \in DOMAIN mirrors :
               /\ mirrors[i].weighted_score = None
               /\ mirrors[i].transfer_rate # None =>
                      /\ i \in probed
                      /\ Unwrap(responses[i]).kind = "body"

\* C24: is_exclude returns a boolean for every mirror whose url has a host,
\* a DNS name or an IP address, and every rule set: false for the empty one,
\* and otherwise what the last rule matching the host in lower case, the
\* country or the country code says.
C24_IsExcludeTotal ==
    is_exclude_ret # None =>
        LET call == Unwrap(is_exclude_ret) IN
        /\ call.value \in { "true", "false" }
        /\ call.list = << >> => call.value = "false"
        /\ ( call.value = "true" ) =
               ScanRules(call.list, Len(call.list),
                         to_lowercase(call.mirror.url.host),
                         to_lowercase(call.mirror.country),
                         to_lowercase(call.mirror.country_code))

====
